---- MODULE Spec2Model ----
(***************************************************************************)
(* RSKaggleDataset (src/src/datamodules/datasets/rs_kaggle_dataset.py) and *)
(* RSSimpleDataModule.prepare_data: materialization of the Kaggle archive  *)
(* into processed/train and processed/test, and the read-time collection.  *)
(*                                                                         *)
(* A Python str is a sequence of one-character strings.  The filesystem    *)
(* under one root is the record fs; a directory is a function from file    *)
(* name to file content.                                                   *)
(***************************************************************************)
EXTENDS Integers, Sequences, FiniteSets, TLC

VARIABLES archive, fs, inst, last, got

vars == <<archive, fs, inst, last, got>>

---------------------------------------------------------------------------
(* Bounds of the model.                                                    *)

\* Largest number of members of an archive.
MaxMembers == 2

---------------------------------------------------------------------------
(* Python strings.                                                         *)

\* The characters the names use, in code point order (ASCII).
Ascii ==
  <<"-", ".", "/", "0", "1", "2", "3", "4", "5", "6", "7", "8", "9", "I", "_",
    "a", "c", "d", "e", "g", "h", "i", "k", "l", "m", "n", "o", "p", "r", "s",
    "t", "u">>

\* Order-preserving rank of a character (stands for ord(c)).
Ord(c) == CHOOSE i \in 1..Len(Ascii) : Ascii[i] = c

Digits == <<"0", "1", "2", "3", "4", "5", "6", "7", "8", "9">>

DigitChars == {"0", "1", "2", "3", "4", "5", "6", "7", "8", "9"}

\* c matches \d
IsDigit(c) == c \in DigitChars

DigitVal(c) == (CHOOSE i \in 1..10 : Digits[i] = c) - 1

\* a < b for Python str: lexicographic by code point, a proper prefix first.
RECURSIVE StrLess(_, _)
StrLess(a, b) ==
  IF b = <<>> THEN FALSE
  ELSE IF a = <<>> THEN TRUE
  ELSE IF Head(a) # Head(b) THEN Ord(Head(a)) < Ord(Head(b))
  ELSE StrLess(Tail(a), Tail(b))

\* s.startswith(p)
StartsWith(s, p) == Len(s) >= Len(p) /\ SubSeq(s, 1, Len(p)) = p

\* sub in s
Contains(sub, s) ==
  \E i \in 1..(Len(s) - Len(sub) + 1) : SubSeq(s, i, i + Len(sub) - 1) = sub

\* int(ds) for a non-empty run of decimal digits.
RECURSIVE ParseInt(_)
ParseInt(ds) ==
  IF ds = <<>> THEN 0
  ELSE 10 * ParseInt(SubSeq(ds, 1, Len(ds) - 1)) + DigitVal(ds[Len(ds)])

\* re.compile(r"\d+").findall(name): the first element, <<>> when the list
\* is empty (indexing it raises IndexError).
RECURSIVE DigitRunStart(_, _)
DigitRunStart(name, i) ==
  IF i > Len(name) \/ IsDigit(name[i]) THEN i ELSE DigitRunStart(name, i + 1)

RECURSIVE DigitRunEnd(_, _)
DigitRunEnd(name, i) ==
  IF i < Len(name) /\ IsDigit(name[i + 1]) THEN DigitRunEnd(name, i + 1) ELSE i

DigitRunFrom(name, b) ==
  IF b > Len(name) THEN <<>> ELSE SubSeq(name, b, DigitRunEnd(name, b))

FirstDigitRun(name) == DigitRunFrom(name, DigitRunStart(name, 1))

\* str(n) for n >= 0
RECURSIVE DecStr(_)
DecStr(n) ==
  IF n < 10 THEN <<Digits[n + 1]>>
  ELSE DecStr(n \div 10) \o <<Digits[(n % 10) + 1]>>

RECURSIVE ZeroPad(_, _)
ZeroPad(s, w) == IF Len(s) >= w THEN s ELSE ZeroPad(<<"0">> \o s, w)

\* Fmt03d with the zero padding forgotten (f"{n:3d}" stripped, or f"{n}").
Fmt03d_NoPad(n) ==
  IF n < 0 THEN <<"-">> \o DecStr(0 - n) ELSE DecStr(n)

\* Width of the canonical key, the 3 of the format spec ":03d".
KeyWidth == 3

\* f"{n:03d}": sign first, zero padded to the width, never truncated.
Fmt03d(n) ==
  IF n < 0 THEN <<"-">> \o ZeroPad(DecStr(0 - n), KeyWidth - 1)
  ELSE ZeroPad(DecStr(n), KeyWidth)

---------------------------------------------------------------------------
(* torch: the tensor of test indeces.                                      *)

\* Bits of the significand of a float32.
Float32Bits == 24

RECURSIVE Pow2(_)
Pow2(k) == IF k = 0 THEN 1 ELSE 2 * Pow2(k - 1)

RECURSIVE BitLen(_)
BitLen(n) == IF n = 0 THEN 0 ELSE 1 + BitLen(n \div 2)

\* int64 -> float32, round to nearest, ties to even (n >= 0).
\* torch.cat((torch.tensor([]), torch.tensor([n])), 0) promotes to the
\* dtype of torch.tensor([]), which is float32.
RoundToUlp(n, ulp) ==
  IF 2 * (n % ulp) < ulp THEN (n \div ulp) * ulp
  ELSE IF 2 * (n % ulp) > ulp THEN ((n \div ulp) + 1) * ulp
  ELSE IF (n \div ulp) % 2 = 0 THEN (n \div ulp) * ulp
  ELSE ((n \div ulp) + 1) * ulp

ToFloat32(n) ==
  IF BitLen(n) <= Float32Bits THEN n
  ELSE RoundToUlp(n, Pow2(BitLen(n) - Float32Bits))

---------------------------------------------------------------------------
(* Class constants of RSKaggleDataset.                                     *)

kaggle_folder_train_images ==
  <<"t","r","a","i","n","i","n","g","/","t","r","a","i","n","i","n","g","/",
    "i","m","a","g","e","s","/">>

kaggle_folder_train_masks ==
  <<"t","r","a","i","n","i","n","g","/","t","r","a","i","n","i","n","g","/",
    "g","r","o","u","n","d","t","r","u","t","h","/">>

kaggle_folder_test_images ==
  <<"t","e","s","t","_","i","m","a","g","e","s","/",
    "t","e","s","t","_","i","m","a","g","e","s","/">>

kaggle_file_test_indeces ==
  <<"_","k","a","g","g","l","e","_","t","e","s","t","_",
    "i","n","d","e","c","e","s",".","p","t">>

folder_train == "processed/train"

folder_test == "processed/test"

Folders == {folder_train, folder_test}

---------------------------------------------------------------------------
(* The filesystem under root/rs_kaggle_dataset.                            *)

EmptyDir == [f \in {} |-> <<>>]

\* Nothing on disk yet.
EmptyFs ==
  [raw |-> FALSE, processed |-> FALSE, zip |-> FALSE,
   exists |-> [d \in Folders |-> FALSE],
   files |-> [d \in Folders |-> EmptyDir]]

\* Writing a file replaces a file of the same name.
PutFile(dir, fname, data) ==
  [f \in (DOMAIN dir) \cup {fname} |-> IF f = fname THEN data ELSE dir[f]]

\* zipdata.extract(zipinfo, folder): creates the folder and its parents when
\* missing and writes the member's bytes under zipinfo.filename.  The bytes
\* of a member are identified by the member's original name.
ZipExtract(fsys, folder, fname, member) ==
  [fsys EXCEPT !.processed = TRUE,
               !.exists[folder] = TRUE,
               !.files[folder] =
                  PutFile(@, fname, [kind |-> "png", data |-> member])]

\* torch.save(tensor, os.path.join(folder, fname)); the folder exists.
TorchSave(fsys, folder, fname, tensor) ==
  [fsys EXCEPT !.files[folder] =
                  PutFile(@, fname, [kind |-> "pt", data |-> tensor])]

\* os.path.join(folder, f)
PathJoin(folder, f) == [dir |-> folder, file |-> f]

\* Order of two joined paths as Python strings: the folder part is the same
\* for all paths of one listing, so the file names decide.
PathLess(p, q) ==
  IF p.dir = q.dir THEN StrLess(p.file, q.file) ELSE FALSE

\* sorted(paths) for a set of distinct paths of one folder.
RECURSIVE Sorted(_)
SortedFrom(S, m) == <<m>> \o Sorted(S \ {m})

Sorted(S) ==
  IF S = {} THEN <<>>
  ELSE SortedFrom(S, CHOOSE x \in S : \A y \in S \ {x} : PathLess(x, y))

---------------------------------------------------------------------------
(* RSKaggleDataset.                                                        *)

\* The object right after lines 45-50 of __init__.
NewSelf(train) ==
  [alive |-> TRUE, train |-> train, images |-> <<>>, masks |-> <<>>,
   kaggle_test_indeces |-> <<>>]

NoInst == [NewSelf(TRUE) EXCEPT !.alive = FALSE]

\* _check_exists looking at folder_train for both roles.
_check_exists_TrainOnly(self, fsys) == fsys.exists[folder_train]

\* _check_exists asking for a complete test folder (the index file).
_check_exists_Complete(self, fsys) ==
  IF self.train THEN fsys.exists[folder_train]
  ELSE /\ fsys.exists[folder_test]
       /\ kaggle_file_test_indeces \in DOMAIN fsys.files[folder_test]

_check_exists(self, fsys) ==
  IF self.train THEN fsys.exists[folder_train] ELSE fsys.exists[folder_test]

\* findall(name)[0] raises IndexError when the name holds no digit.
HasNumber(name) == FirstDigitRun(name) # <<>>

_img_number_from_name(name) == ParseInt(FirstDigitRun(name))

\* Canonical file names of lines 93-95, 100-102 and 109.
TrainImageName(name) ==
  Fmt03d(_img_number_from_name(name) - 1)
    \o <<"_","i","m","a","g","e",".","p","n","g">>

\* TrainMaskName with the suffix of the image branch.
TrainMaskName_ImageSuffix(name) ==
  Fmt03d(_img_number_from_name(name) - 1)
    \o <<"_","i","m","a","g","e",".","p","n","g">>

TrainMaskName(name) ==
  Fmt03d(_img_number_from_name(name) - 1)
    \o <<"_","m","a","s","k",".","p","n","g">>

TestImageName(test_index) ==
  Fmt03d(test_index) \o <<"_","i","m","a","g","e",".","p","n","g">>

\* The locals of unzip before the loop (lines 87-88).
UnzipStart(self, fsys) ==
  [fs |-> fsys, self |-> self, test_index |-> 0,
   kaggle_test_indeces |-> <<>>, status |-> "ok", extracted |-> 0]

\* Lines 96-97.
PutTrainImage(st, img_name, fname) ==
  [st EXCEPT !.fs = ZipExtract(@, folder_train, fname, img_name),
             !.self.images = Append(@, fname),
             !.extracted = @ + 1]

\* Lines 92-97: a train image member.
UnzipTrainImage(st, img_name) ==
  IF ~StartsWith(img_name, kaggle_folder_train_images) THEN st
  ELSE IF ~HasNumber(img_name) THEN [st EXCEPT !.status = "parse_error"]
  ELSE PutTrainImage(st, img_name, TrainImageName(img_name))

\* Lines 103-104.
PutTrainMask(st, img_name, fname) ==
  [st EXCEPT !.fs = ZipExtract(@, folder_train, fname, img_name),
             !.self.masks = Append(@, fname),
             !.extracted = @ + 1]

\* Lines 99-104: a train mask member; not reached when line 94 raised.
UnzipTrainMask(st, img_name) ==
  IF st.status # "ok" THEN st
  ELSE IF ~StartsWith(img_name, kaggle_folder_train_masks) THEN st
  ELSE IF ~HasNumber(img_name) THEN [st EXCEPT !.status = "parse_error"]
  ELSE PutTrainMask(st, img_name, TrainMaskName(img_name))

\* PutTestImage without line 117 (test_index += 1).
PutTestImage_KeepsCounter(st, img_name, fname, kaggle_index) ==
  [st EXCEPT !.kaggle_test_indeces = Append(@, ToFloat32(kaggle_index)),
             !.fs = ZipExtract(@, folder_test, fname, img_name),
             !.self.images = Append(@, fname),
             !.extracted = @ + 1]

\* Lines 109-117.  The tensor of indeces is float32 (line 88).
PutTestImage(st, img_name, fname, kaggle_index) ==
  [st EXCEPT !.kaggle_test_indeces = Append(@, ToFloat32(kaggle_index)),
             !.fs = ZipExtract(@, folder_test, fname, img_name),
             !.self.images = Append(@, fname),
             !.test_index = @ + 1,
             !.extracted = @ + 1]

\* Lines 107-117: a test image member.  The number is parsed (line 110)
\* before the member is extracted (line 114).
UnzipTestImage(st, img_name) ==
  IF ~StartsWith(img_name, kaggle_folder_test_images) THEN st
  ELSE IF ~HasNumber(img_name) THEN [st EXCEPT !.status = "parse_error"]
  ELSE PutTestImage(st, img_name, TestImageName(st.test_index),
                    _img_number_from_name(img_name))

\* One iteration of the loop of lines 89-117.
UnzipMember(st, img_name) ==
  IF st.self.train
  THEN UnzipTrainMask(UnzipTrainImage(st, img_name), img_name)
  ELSE UnzipTestImage(st, img_name)

\* The loop over zipdata.infolist().  An exception ends it; the process may
\* be killed before the iteration crashAt (0: it is not killed).
RECURSIVE UnzipLoop(_, _, _, _)
UnzipNext(members, i, s1, crashAt) ==
  IF s1.status = "ok" THEN UnzipLoop(members, i + 1, s1, crashAt) ELSE s1

UnzipLoop(members, i, st, crashAt) ==
  IF i > Len(members) THEN st
  ELSE IF i = crashAt THEN [st EXCEPT !.status = "crash"]
  ELSE UnzipNext(members, i, UnzipMember(st, members[i]), crashAt)

\* Lines 119-123: torch.save opens the file for writing, which fails when
\* folder_test was never created.
UnzipSave(st, crashAt, n) ==
  IF st.status # "ok" \/ st.self.train THEN st
  ELSE IF crashAt = n + 1 THEN [st EXCEPT !.status = "crash"]
  ELSE IF ~st.fs.exists[folder_test] THEN [st EXCEPT !.status = "save_error"]
  ELSE [st EXCEPT !.fs = TorchSave(@, folder_test, kaggle_file_test_indeces,
                                   st.kaggle_test_indeces)]

\* unzip(self) on the archive `members` that lies in the raw folder.
Unzip(self, fsys, members, crashAt) ==
  UnzipSave(UnzipLoop(members, 1, UnzipStart(self, fsys), crashAt),
            crashAt, Len(members))

\* One invocation of the download collaborator (line 78), with what was on
\* disk when download() was entered.
ApiCall(self, fsys) ==
  [train |-> self.train, zipBefore |-> fsys.zip,
   folderBefore |-> fsys.exists[IF self.train THEN folder_train
                                ELSE folder_test]]

\* Line 80 and the return of download().
DownloadUnzipped(u, call) ==
  [fs |-> u.fs, self |-> u.self, status |-> u.status, calls |-> <<call>>,
   extracted |-> u.extracted]

\* download() creating the role's folder, not folder_processed, in line 68.
Download_MakesRoleFolder(self, fsys, members, env) ==
  IF _check_exists(self, fsys)
  THEN [fs |-> fsys, self |-> self, status |-> "noop", calls |-> <<>>,
        extracted |-> 0]
  ELSE IF env.apiFails
  THEN [fs |-> [fsys EXCEPT !.raw = TRUE, !.processed = TRUE,
                            !.exists[IF self.train THEN folder_train
                                     ELSE folder_test] = TRUE],
        self |-> self,
        status |-> "acquisition_error", calls |-> <<ApiCall(self, fsys)>>,
        extracted |-> 0]
  ELSE DownloadUnzipped(
         Unzip(self, [fsys EXCEPT !.raw = TRUE, !.processed = TRUE,
                                  !.zip = TRUE], members, env.crashAt),
         ApiCall(self, fsys))

\* download(self).  env.apiFails: api.authenticate() or
\* api.competition_download_files raises; env.crashAt: see UnzipLoop.
Download(self, fsys, members, env) ==
  IF _check_exists(self, fsys)
  THEN [fs |-> fsys, self |-> self, status |-> "noop", calls |-> <<>>,
        extracted |-> 0]
  ELSE IF env.apiFails
  THEN [fs |-> [fsys EXCEPT !.raw = TRUE, !.processed = TRUE], self |-> self,
        status |-> "acquisition_error", calls |-> <<ApiCall(self, fsys)>>,
        extracted |-> 0]
  ELSE DownloadUnzipped(
         Unzip(self, [fsys EXCEPT !.raw = TRUE, !.processed = TRUE,
                                  !.zip = TRUE], members, env.crashAt),
         ApiCall(self, fsys))

\* os.listdir(folder) restricted to the files whose name contains `word`,
\* joined with the folder (lines 130-144 and 150-159).  Every entry of a
\* processed folder is a regular file.
Listing(fsys, folder, word) ==
  {PathJoin(folder, f) : f \in {g \in DOMAIN fsys.files[folder] :
                                  Contains(word, g)}}

\* process(self).  torch.load raises when the index file is missing.
Process(self, fsys) ==
  IF self.train
  THEN [self |-> [self EXCEPT
            !.images = Sorted(Listing(fsys, folder_train,
                                      <<"i","m","a","g","e">>)),
            !.masks = Sorted(Listing(fsys, folder_train,
                                     <<"m","a","s","k">>))],
        status |-> "ok"]
  ELSE IF kaggle_file_test_indeces \notin DOMAIN fsys.files[folder_test]
  THEN [self |-> self, status |-> "persistence_error"]
  ELSE [self |-> [self EXCEPT
            !.kaggle_test_indeces =
               fsys.files[folder_test][kaggle_file_test_indeces].data,
            !.images = Sorted(Listing(fsys, folder_test,
                                      <<"i","m","a","g","e">>)),
            !.masks = <<>>],
        status |-> "ok"]

\* Line 60 and the end of __init__.
Constructed(d, p) ==
  [fs |-> d.fs, inst |-> IF p.status = "ok" THEN p.self ELSE NoInst,
   dl |-> d, outcome |-> p.status]

\* Lines 55-60 of __init__, d being what download() did (lines 52-53).
AfterDownload(d) ==
  IF d.status \notin {"none", "noop", "ok"}
  THEN [fs |-> d.fs, inst |-> NoInst, dl |-> d, outcome |-> d.status]
  ELSE IF ~_check_exists(d.self, d.fs)
  THEN [fs |-> d.fs, inst |-> NoInst, dl |-> d, outcome |-> "not_found"]
  ELSE Constructed(d, Process(d.self, d.fs))

\* __init__(root, train, download): the filesystem afterwards, the object
\* (NoInst when __init__ raised), what download() did and the outcome.
Construct(fsys, members, train, download, env) ==
  AfterDownload(
    IF download THEN Download(NewSelf(train), fsys, members, env)
    ELSE [fs |-> fsys, self |-> NewSelf(train), status |-> "none",
          calls |-> <<>>, extracted |-> 0])

\* Image.open(path): the bytes of the file, i.e. the member it came from.
ImageOpen(fsys, path) == fsys.files[path.dir][path.file].data

NoItem == [status |-> "none", index |-> 0, image |-> <<>>, target |-> <<>>]

\* __getitem__(self, index) for index >= 0, no transforms configured.
GetItemOf(self, fsys, index) ==
  IF self.train
  THEN IF index >= Len(self.images) \/ index >= Len(self.masks)
       THEN [NoItem EXCEPT !.status = "index_error", !.index = index]
       ELSE [status |-> "ok", index |-> index,
             image |-> ImageOpen(fsys, self.images[index + 1]),
             target |-> ImageOpen(fsys, self.masks[index + 1])]
  ELSE IF index >= Len(self.images) \/ index >= Len(self.kaggle_test_indeces)
       THEN [NoItem EXCEPT !.status = "index_error", !.index = index]
       ELSE [status |-> "ok", index |-> index,
             image |-> ImageOpen(fsys, self.images[index + 1]),
             target |-> self.kaggle_test_indeces[index + 1]]

---------------------------------------------------------------------------
(* The archives the download collaborator may deliver.                     *)

\* Members an archive may hold, in the order the archive lists them: the
\* train images 101, 2, 1001 and a second one with the number 101, the mask
\* 101, the test images 7, 3 and 16777217, and the entry of the test folder
\* itself (a name without a digit).
MemberList ==
  << kaggle_folder_train_images \o
       <<"s","a","t","I","m","a","g","e","_","1","0","1",".","p","n","g">>,
     kaggle_folder_train_masks \o
       <<"s","a","t","I","m","a","g","e","_","1","0","1",".","p","n","g">>,
     kaggle_folder_train_images \o
       <<"s","a","t","I","m","a","g","e","_","0","0","2",".","p","n","g">>,
     kaggle_folder_train_images \o
       <<"s","a","t","I","m","a","g","e","_","1","0","0","1",".","p","n","g">>,
     kaggle_folder_train_images \o
       <<"s","a","t","I","m","a","g","e","_","0","1","0","1",".","p","n","g">>,
     kaggle_folder_test_images \o
       <<"t","e","s","t","_","7",".","p","n","g">>,
     kaggle_folder_test_images \o
       <<"t","e","s","t","_","3",".","p","n","g">>,
     kaggle_folder_test_images \o
       <<"t","e","s","t","_","1","6","7","7","7","2","1","7",".","p","n","g">>,
     kaggle_folder_test_images >>

RECURSIVE PickFrom(_, _)
PickFrom(i, I) ==
  IF i > Len(MemberList) THEN <<>>
  ELSE (IF i \in I THEN <<MemberList[i]>> ELSE <<>>) \o PickFrom(i + 1, I)

\* Archives: any choice of up to MaxMembers members of the list.
Archives ==
  {PickFrom(1, I) : I \in {J \in SUBSET (1..Len(MemberList)) :
                             Cardinality(J) <= MaxMembers}}

\* What the environment does to one download(): the collaborator fails, or
\* the process is killed before iteration crashAt of the extraction.
Envs(members) ==
  {e \in [apiFails : BOOLEAN, crashAt : 0..(Len(members) + 1)] :
     e.apiFails => e.crashAt = 0}

NoFault == [apiFails |-> FALSE, crashAt |-> 0]

\* A fault needs a download() that gets past its existence check.
EnvsAt(fsys, members, train, download) ==
  IF download /\ ~_check_exists(NewSelf(train), fsys) THEN Envs(members)
  ELSE {NoFault}

---------------------------------------------------------------------------
(* State machine.                                                          *)
(* last: the latest call of download(): its role, what it did, whether the *)
(* role's folder existed when it was entered, whether it changed the       *)
(* filesystem, the outcome its caller saw, and prevDl, the status of the   *)
(* download() call right before it when that one had the same role         *)
(* ("none" otherwise).  got: the latest inst[index].                       *)

NoLog ==
  [train |-> TRUE, dl |-> "none", calls |-> <<>>, extracted |-> 0,
   existed |-> FALSE, changed |-> FALSE, outcome |-> "none",
   prevDl |-> "none"]

RoleFolder(train) == IF train THEN folder_train ELSE folder_test

\* The log of a download() call entered with the filesystem fsys.
Log(train, fsys, r, prevDl) ==
  [train |-> train, dl |-> r.dl.status, calls |-> r.dl.calls,
   extracted |-> r.dl.extracted, existed |-> fsys.exists[RoleFolder(train)],
   changed |-> (r.fs # fsys), outcome |-> r.outcome, prevDl |-> prevDl]

PrevDl(log, train) == IF log.train = train THEN log.dl ELSE "none"

Init ==
  /\ archive \in Archives
  /\ fs = EmptyFs
  /\ inst = NoInst
  /\ last = NoLog
  /\ got = NoItem

Constructing(train, download, r) ==
  /\ fs' = r.fs
  /\ inst' = r.inst
  /\ last' = IF download
             THEN Log(train, fs, r, PrevDl(last, train))
             ELSE last
  /\ got' = NoItem
  /\ UNCHANGED archive

\* RSKaggleDataset(root, train=train, download=download)
New(train, download, env) ==
  Constructing(train, download, Construct(fs, archive, train, download, env))

PreparingTest(r1, r2) ==
  /\ fs' = r2.fs
  /\ last' = Log(FALSE, r1.fs, r2, "none")
  /\ got' = NoItem
  /\ UNCHANGED <<archive, inst>>

PreparingTrain(r1) ==
  IF r1.outcome # "ok"
  THEN /\ fs' = r1.fs
       /\ last' = Log(TRUE, fs, r1, PrevDl(last, TRUE))
       /\ got' = NoItem
       /\ UNCHANGED <<archive, inst>>
  ELSE \E env2 \in EnvsAt(r1.fs, archive, FALSE, TRUE) :
         PreparingTest(r1, Construct(r1.fs, archive, FALSE, TRUE, env2))

\* RSSimpleDataModule.prepare_data(): the train set, then the test set; an
\* exception of the first construction ends the call.  The two objects are
\* dropped.
PrepareData(env1) ==
  PreparingTrain(Construct(fs, archive, TRUE, TRUE, env1))

\* inst[index]
GetItem(index) ==
  /\ inst.alive
  /\ got' = GetItemOf(inst, fs, index)
  /\ UNCHANGED <<archive, fs, inst, last>>

Next ==
  \/ \E train \in BOOLEAN, download \in BOOLEAN :
       \E env \in EnvsAt(fs, archive, train, download) :
         New(train, download, env)
  \/ \E env1 \in EnvsAt(fs, archive, TRUE, TRUE) : PrepareData(env1)
  \/ \E index \in 0..Len(inst.images) : GetItem(index)

Spec == Init /\ [][Next]_vars

---------------------------------------------------------------------------
(* Vocabulary of the properties.                                           *)

IsTrainImage(m) == StartsWith(m, kaggle_folder_train_images)

IsTrainMask(m) == StartsWith(m, kaggle_folder_train_masks)

IsTestImage(m) == StartsWith(m, kaggle_folder_test_images)

\* The members of the archive under the test prefix, in archive order.
TestMembers == SelectSeq(archive, IsTestImage)

\* Some image file of the folder holds the bytes of member m.
Survives(m, folder) ==
  \E f \in DOMAIN fs.files[folder] :
    fs.files[folder][f].kind = "png" /\ fs.files[folder][f].data = m

\* Members i and j of the archive have the same kind and the same number.
SameKindAndNumber(i, j) ==
  /\ IsTrainImage(archive[i]) = IsTrainImage(archive[j])
  /\ IsTrainMask(archive[i]) = IsTrainMask(archive[j])
  /\ HasNumber(archive[i]) /\ HasNumber(archive[j])
  /\ _img_number_from_name(archive[i]) = _img_number_from_name(archive[j])

\* The key of a canonical file name: the text before the first "_".
RECURSIVE KeyText(_)
KeyText(f) ==
  IF f = <<>> \/ Head(f) = "_" THEN <<>> ELSE <<Head(f)>> \o KeyText(Tail(f))

\* The key as a number.
KeyNum(path) ==
  IF Head(path.file) = "-" THEN 0 - ParseInt(Tail(KeyText(path.file)))
  ELSE ParseInt(KeyText(path.file))

LexAscending(paths) ==
  \A i \in 1..(Len(paths) - 1) : PathLess(paths[i], paths[i + 1])

KeyAscending(paths) ==
  \A i \in 1..(Len(paths) - 1) : KeyNum(paths[i]) < KeyNum(paths[i + 1])

\* Largest key the width of the canonical name holds: 10^KeyWidth - 1.
RECURSIVE Pow10(_)
Pow10(k) == IF k = 0 THEN 1 ELSE 10 * Pow10(k - 1)

MaxPaddedKey == Pow10(KeyWidth) - 1

KeysFit(paths) == \A i \in 1..Len(paths) : KeyNum(paths[i]) <= MaxPaddedKey

---------------------------------------------------------------------------
(* C1 *)

\* C1: when download() is called twice in a row for the same role and the
\* first call completed successfully, the second call invokes no download
\* collaborator, extracts nothing and changes nothing on disk.
C1_SecondDownloadIsNoOp ==
  last.prevDl = "ok" =>
    /\ last.calls = <<>>
    /\ last.extracted = 0
    /\ ~last.changed

---------------------------------------------------------------------------
(* C2 *)

\* C2: after a TEST materialization the persisted index holds exactly the
\* original numbers of the test members in encounter order, and the j-th
\* test member (from 0) lies under the canonical name <j:03d>_image.png.
C2_TestIndexRoundTrip ==
  (last.dl = "ok" /\ ~last.train) =>
    /\ fs.files[folder_test][kaggle_file_test_indeces].data =
         [j \in 1..Len(TestMembers) |-> _img_number_from_name(TestMembers[j])]
    /\ \A j \in 1..Len(TestMembers) :
         /\ TestImageName(j - 1) \in DOMAIN fs.files[folder_test]
         /\ fs.files[folder_test][TestImageName(j - 1)].data = TestMembers[j]

---------------------------------------------------------------------------
(* C3 *)

\* C3: every constructed TRAIN dataset has as many masks as images, and
\* images[i] and masks[i] carry the same key.
C3_TrainCorrespondence ==
  (inst.alive /\ inst.train) =>
    /\ Len(inst.images) = Len(inst.masks)
    /\ \A i \in 1..Len(inst.images) :
         KeyText(inst.images[i].file) = KeyText(inst.masks[i].file)

---------------------------------------------------------------------------
(* C4 *)

\* C4: inst[i] of a TEST dataset returns, as its second component, the
\* original number of the archive member whose extracted file is images[i].
C4_GetItemReturnsOriginalNumber ==
  (got.status = "ok" /\ inst.alive /\ ~inst.train) =>
    got.target = _img_number_from_name(got.image)

---------------------------------------------------------------------------
(* C5 *)

\* C5: every constructed TEST dataset has as many images as entries of the
\* index, after any sequence of materialization attempts; the index file
\* is on disk then.
C5_TestLengths ==
  (inst.alive /\ ~inst.train) =>
    /\ kaggle_file_test_indeces \in DOMAIN fs.files[folder_test]
    /\ Len(inst.images) = Len(inst.kaggle_test_indeces)

\* A TEST dataset of two images or more, built by a download() that
\* followed an aborted one.
C5_Witness ==
  /\ inst.alive /\ ~inst.train
  /\ Len(inst.images) >= 2
  /\ ~last.train /\ last.dl = "ok"
  /\ last.prevDl \in {"crash", "acquisition_error"}

---------------------------------------------------------------------------
(* C6 *)

\* C6 as stated: no member extracted for a role is overwritten by another
\* member, i.e. after a complete extraction every member of the role still
\* has its file.
C6_NoMemberOverwritten ==
  last.dl = "ok" =>
    \A i \in 1..Len(archive) :
      IF last.train
      THEN (IsTrainImage(archive[i]) \/ IsTrainMask(archive[i]))
             => Survives(archive[i], folder_train)
      ELSE IsTestImage(archive[i]) => Survives(archive[i], folder_test)

\* C6 amended: a train member is overwritten only by a later train member
\* of the same kind whose name carries the same number; a test member is
\* never overwritten.
C6_OverwrittenOnlyBySameNumber ==
  last.dl = "ok" =>
    \A i \in 1..Len(archive) :
      IF last.train
      THEN (IsTrainImage(archive[i]) \/ IsTrainMask(archive[i]))
             => \/ Survives(archive[i], folder_train)
                \/ \E j \in (i + 1)..Len(archive) : SameKindAndNumber(i, j)
      ELSE IsTestImage(archive[i]) => Survives(archive[i], folder_test)

\* A complete train extraction of two images with the same number: the
\* second has replaced the first.
C6_Witness ==
  /\ last.dl = "ok" /\ last.train /\ last.extracted = 2
  /\ \E i, j \in 1..Len(archive) :
       /\ i < j
       /\ IsTrainImage(archive[i]) /\ SameKindAndNumber(i, j)
       /\ ~Survives(archive[i], folder_train)
       /\ Survives(archive[j], folder_train)

---------------------------------------------------------------------------
(* C7 *)

\* C7 as stated: after process() the images and the masks are in
\* lexicographic order of their names, and that is the ascending order of
\* their keys, whatever keys the extraction produced.
C7_SortedIsKeyOrder ==
  inst.alive =>
    /\ LexAscending(inst.images) /\ LexAscending(inst.masks)
    /\ KeyAscending(inst.images) /\ KeyAscending(inst.masks)

\* C7 amended: the lists are always in lexicographic order; that is the
\* ascending order of the keys when no key exceeds 999.
C7_SortedIsKeyOrderUpTo999 ==
  inst.alive =>
    /\ LexAscending(inst.images) /\ LexAscending(inst.masks)
    /\ KeysFit(inst.images) => KeyAscending(inst.images)
    /\ KeysFit(inst.masks) => KeyAscending(inst.masks)

\* A TRAIN dataset of two images whose keys fit, extracted in descending
\* order of the keys (101 before 2).
C7_Witness ==
  /\ inst.alive /\ inst.train
  /\ Len(inst.images) = 2 /\ KeysFit(inst.images)
  /\ KeyNum(inst.images[1]) = 1 /\ KeyNum(inst.images[2]) = 100

---------------------------------------------------------------------------
(* C8 *)

\* C8 as stated: once the archive lies in the raw folder, no download()
\* invokes the download collaborator again.
C8_ArchiveFetchedOnce ==
  \A k \in 1..Len(last.calls) : ~last.calls[k].zipBefore

\* C8 amended: a download() invokes the collaborator exactly when the
\* processed folder of its role does not exist, also when the archive
\* already lies in the raw folder; so the collaborator is invoked again
\* for the other role, and never for a role whose folder exists.
C8_FetchedWhenRoleFolderMissing ==
  last.dl # "none" =>
    /\ Len(last.calls) = (IF last.existed THEN 0 ELSE 1)
    /\ \A k \in 1..Len(last.calls) :
         ~last.calls[k].folderBefore /\ last.calls[k].train = last.train

\* The collaborator invoked for TEST with the archive already on disk.
C8_Witness ==
  /\ ~last.train /\ last.dl = "ok"
  /\ Len(last.calls) = 1 /\ last.calls[1].zipBefore
  /\ fs.exists[folder_train]

---------------------------------------------------------------------------
(* C9 *)

\* C9: a failure of the download collaborator reaches the caller, nothing
\* is extracted and the role's folder is not created; the next download()
\* for that role invokes the collaborator again.
C9_AcquisitionFailure ==
  /\ last.dl = "acquisition_error" =>
       /\ last.outcome = "acquisition_error"
       /\ last.extracted = 0
       /\ ~fs.exists[RoleFolder(last.train)]
       /\ DOMAIN fs.files[RoleFolder(last.train)] = {}
  /\ last.prevDl = "acquisition_error" =>
       /\ ~last.existed
       /\ Len(last.calls) = 1

\* A download() that succeeded right after a failed acquisition.
C9_Witness ==
  /\ last.prevDl = "acquisition_error"
  /\ last.dl = "ok" /\ last.extracted >= 1

---------------------------------------------------------------------------
(* C10 *)

C10_State ==
  (last.dl # "none" /\ last.existed) =>
    /\ last.dl = "noop"
    /\ last.calls = <<>>
    /\ last.extracted = 0
    /\ ~last.changed

C10_Step ==
  \A d \in Folders :
    fs.exists[d] => (fs'.exists[d] /\ fs'.files[d] = fs.files[d])

\* C10: a download() entered with the role's processed folder on disk,
\* complete or not, invokes no collaborator and extracts nothing, and no
\* step ever changes a processed folder that exists.
C10_ExistingFolderIsFinal == []C10_State /\ [][C10_Step]_vars

\* A download() that returned early on a partly extracted folder: the one
\* before it was aborted after it had created the folder.
C10_Witness ==
  /\ last.dl = "noop" /\ last.existed
  /\ last.prevDl \in {"crash", "parse_error"}
  /\ ~last.train
  /\ kaggle_file_test_indeces \notin DOMAIN fs.files[folder_test]

====
